---- MODULE Spec2Model ----
(***************************************************************************)
(* Cache layer of the blog service: the RedisClient wrapper with its       *)
(* circuit breaker (utils/redis.js), the cache helpers get / set / del /   *)
(* clearPattern, and the Express middleware cacheResponse and              *)
(* invalidateCache (utils/cacheMiddleware.js) mounted on the blog routes.  *)
(*                                                                         *)
(* Strings that the code inspects character by character (cache keys, key  *)
(* patterns, JSON text) are sequences of tokens; a token is a run of       *)
(* characters that no pattern or parser of the program splits.             *)
(***************************************************************************)
EXTENDS Integers, Sequences, FiniteSets, TLC

\* ------------------------------------------------------------------ bounds
\* last clock value the model explores (ms)
MaxNow == 60000
\* cap on circuitBreakerFailures (the counter has no bound in the code)
MaxFailures == 6
\* number of successful mutations of the blog collection that are explored
MaxDb == 1
\* largest number literal the JSON reader recognises
MaxNum == 3
\* last clock value explored while the blog routes serve requests (ms)
RoutesMaxNow == 30000
\* last clock value explored while the helpers fill and clear the store (ms)
StoreMaxNow == 30000
\* time between two clock readings the model distinguishes (ms)
TickMs == 30000
\* a TTL (seconds) shorter than the explored time span
ShortTtl == 30
\* most store clients that are replaced by a newer one while still open
MaxReplaced == 1

\* ------------------------------------------------------- program constants
circuitBreakerThreshold == 5
circuitBreakerTimeout == 30000
maxRetries == 5
retryDelay == 1000
maxRetryDelay == 10000
DefaultTtl == 300
\* circuitBreakerLastFailure = null
NullTime == -1

\* ----------------------------------------------------------- JS values
JNull == <<"null">>
JUndefined == <<"undefined">>
JBool(b) == <<"bool", b>>
JNum(n) == <<"num", n>>
JStr(s) == <<"str", s>>
JArr(elems) == <<"arr", elems>>
JObj(members) == <<"obj", members>>

\* JavaScript truthiness, as used by `if (cachedData)` and `if (value)`
Truthy(v) ==
  CASE v[1] = "null" -> FALSE
    [] v[1] = "undefined" -> FALSE
    [] v[1] = "bool" -> v[2]
    [] v[1] = "num" -> v[2] # 0
    [] v[1] = "str" -> v[2] # ""
    [] OTHER -> TRUE

RECURSIVE Stringify(_)
RECURSIVE StringifyElems(_)
RECURSIVE StringifyMembers(_)
\* JSON.stringify on a JSON-compatible value: the JSON text as tokens
Stringify(v) ==
  CASE v[1] = "null" -> <<"null">>
    [] v[1] = "bool" -> IF v[2] THEN <<"true">> ELSE <<"false">>
    [] v[1] = "num" -> <<ToString(v[2])>>
    [] v[1] = "str" -> IF v[2] = "" THEN <<"\"", "\"">> ELSE <<"\"", v[2], "\"">>
    [] v[1] = "arr" -> <<"[">> \o StringifyElems(v[2]) \o <<"]">>
    [] v[1] = "obj" -> <<"{">> \o StringifyMembers(v[2]) \o <<"}">>

StringifyElems(es) ==
  IF es = <<>> THEN <<>>
  ELSE IF Len(es) = 1 THEN Stringify(es[1])
  ELSE Stringify(es[1]) \o <<",">> \o StringifyElems(Tail(es))

StringifyMembers(ms) ==
  IF ms = <<>> THEN <<>>
  ELSE IF Len(ms) = 1 THEN <<"\"", ms[1][1], "\"", ":">> \o Stringify(ms[1][2])
  ELSE <<"\"", ms[1][1], "\"", ":">> \o Stringify(ms[1][2]) \o <<",">>
       \o StringifyMembers(Tail(ms))

Punctuation == {"\"", "[", "]", "{", "}", ",", ":"}
IsNumTok(tok) == \E n \in 0..MaxNum : ToString(n) = tok
NumOfTok(tok) == CHOOSE n \in 0..MaxNum : ToString(n) = tok
ParseFail == [ok |-> FALSE, v |-> JUndefined, n |-> 0]

RECURSIVE ParseValue(_, _)
RECURSIVE ParseElems(_, _, _)
RECURSIVE ParseMembers(_, _, _)
\* recursive-descent JSON reader: value starting at token i of t
ParseValue(t, i) ==
  IF i > Len(t) THEN ParseFail
  ELSE IF t[i] = "null" THEN [ok |-> TRUE, v |-> JNull, n |-> i + 1]
  ELSE IF t[i] = "true" THEN [ok |-> TRUE, v |-> JBool(TRUE), n |-> i + 1]
  ELSE IF t[i] = "false" THEN [ok |-> TRUE, v |-> JBool(FALSE), n |-> i + 1]
  ELSE IF IsNumTok(t[i]) THEN [ok |-> TRUE, v |-> JNum(NumOfTok(t[i])), n |-> i + 1]
  ELSE IF t[i] = "\"" THEN
    IF i + 1 <= Len(t) /\ t[i + 1] = "\""
      THEN [ok |-> TRUE, v |-> JStr(""), n |-> i + 2]
    ELSE IF i + 2 <= Len(t) /\ t[i + 1] \notin Punctuation /\ t[i + 2] = "\""
      THEN [ok |-> TRUE, v |-> JStr(t[i + 1]), n |-> i + 3]
    ELSE ParseFail
  ELSE IF t[i] = "[" THEN
    IF i + 1 <= Len(t) /\ t[i + 1] = "]"
      THEN [ok |-> TRUE, v |-> JArr(<<>>), n |-> i + 2]
    ELSE ParseElems(t, i + 1, <<>>)
  ELSE IF t[i] = "{" THEN
    IF i + 1 <= Len(t) /\ t[i + 1] = "}"
      THEN [ok |-> TRUE, v |-> JObj(<<>>), n |-> i + 2]
    ELSE ParseMembers(t, i + 1, <<>>)
  ELSE ParseFail

ParseElems(t, i, acc) ==
  LET e == ParseValue(t, i) IN
  IF ~e.ok \/ e.n > Len(t) THEN ParseFail
  ELSE IF t[e.n] = "]" THEN [ok |-> TRUE, v |-> JArr(Append(acc, e.v)), n |-> e.n + 1]
  ELSE IF t[e.n] = "," THEN ParseElems(t, e.n + 1, Append(acc, e.v))
  ELSE ParseFail

ParseMembers(t, i, acc) ==
  IF i + 3 > Len(t) \/ t[i] # "\"" \/ t[i + 1] \in Punctuation
     \/ t[i + 2] # "\"" \/ t[i + 3] # ":" THEN ParseFail
  ELSE
    LET e == ParseValue(t, i + 4) IN
    IF ~e.ok \/ e.n > Len(t) THEN ParseFail
    ELSE IF t[e.n] = "}"
      THEN [ok |-> TRUE, v |-> JObj(Append(acc, <<t[i + 1], e.v>>)), n |-> e.n + 1]
    ELSE IF t[e.n] = "," THEN ParseMembers(t, e.n + 1, Append(acc, <<t[i + 1], e.v>>))
    ELSE ParseFail

\* JSON.parse: the whole text must be one value; ok = FALSE is a SyntaxError
JsonParse(t) ==
  LET r == ParseValue(t, 1) IN
  IF r.ok /\ r.n = Len(t) + 1 THEN [ok |-> TRUE, v |-> r.v]
  ELSE [ok |-> FALSE, v |-> JUndefined]

\* ------------------------------------------------------- keys and patterns
RECURSIVE GlobMatch(_, _)
\* KEYS pattern matching of the store: "*" matches any run of characters
GlobMatch(p, k) ==
  IF p = <<>> THEN k = <<>>
  ELSE IF Head(p) = "*"
    THEN GlobMatch(Tail(p), k) \/ (k # <<>> /\ GlobMatch(p, Tail(k)))
  ELSE k # <<>> /\ Head(k) = Head(p) /\ GlobMatch(Tail(p), Tail(k))

ListUrl == <<"/api/blogs">>
DetailUrl == <<"/api/blogs", "/", "1">>
ProbeUrl == <<"/probe">>
\* urls of cacheResponse instances made with other options
SkipUrl == <<"/skip">>
ThrowUrl == <<"/throw">>
MountUrls == {ProbeUrl, SkipUrl, ThrowUrl}
Urls == {ListUrl, DetailUrl, ProbeUrl}

\* default keyGenerator of cacheResponse
defaultKeyGenerator(method, url) == <<"api", ":", method, ":">> \o url
\* a key generator supplied through options.keyGenerator
customKeyGenerator(method, url) == <<"probe", ":">> \o url

\* keys the documentation and the tests name for the blog list
DocListKey == <<"blogs", ":", "/api/blogs">>
UserKey == <<"user", ":", "1">>
\* `user:${userId}` of sessionCache
userKey(id) == <<"user", ":", id>>
UserIds == {"1", "2"}

Keys == {defaultKeyGenerator("GET", ListUrl), defaultKeyGenerator("GET", DetailUrl),
         customKeyGenerator("GET", ProbeUrl), DocListKey}
        \cup {userKey(id) : id \in UserIds}

\* patterns of blogInvalidation.all
AllPatterns == << <<"blogs", ":", "*">>, <<"blog", ":", "*">>,
                  <<"user-blogs", ":", "*">>, <<"popular-blogs", ":", "*">> >>
\* ------------------------------------------------------------ RedisClient
\* the fields the constructor sets (replaced is not a field: it counts the
\* store clients that this.client no longer refers to and that were never closed)
NewRedisClient ==
  [client |-> FALSE, isConnected |-> FALSE, retryAttempts |-> 0,
   circuitBreakerFailures |-> 0, circuitBreakerLastFailure |-> NullTime,
   isCircuitBreakerOpen |-> FALSE, replaced |-> 0]

\* Date.now() - this.circuitBreakerLastFailure (null coerces to 0)
SinceLastFailure(c, t) ==
  IF c.circuitBreakerLastFailure = NullTime THEN t ELSE t - c.circuitBreakerLastFailure

\* a breaker that never blocks
isCircuitBreakerTrippedNever(c, t) == [ret |-> FALSE, c |-> c]

\* a breaker that, once the cooldown is over, clears the flag and keeps the count
isCircuitBreakerTrippedKeepsCount(c, t) ==
  IF ~c.isCircuitBreakerOpen THEN [ret |-> FALSE, c |-> c]
  ELSE IF SinceLastFailure(c, t) > circuitBreakerTimeout
    THEN [ret |-> FALSE, c |-> [c EXCEPT !.isCircuitBreakerOpen = FALSE]]
  ELSE [ret |-> TRUE, c |-> c]

\* isCircuitBreakerTripped(): its return value and the client it leaves
isCircuitBreakerTripped(c, t) ==
  IF ~c.isCircuitBreakerOpen THEN [ret |-> FALSE, c |-> c]
  ELSE IF SinceLastFailure(c, t) > circuitBreakerTimeout
    THEN [ret |-> FALSE,
          c |-> [c EXCEPT !.isCircuitBreakerOpen = FALSE, !.circuitBreakerFailures = 0]]
  ELSE [ret |-> TRUE, c |-> c]

\* a breaker that opens one failure late
recordFailureLate(c, t) ==
  LET n == c.circuitBreakerFailures + 1 IN
  [c EXCEPT !.circuitBreakerFailures = n,
            !.circuitBreakerLastFailure = t,
            !.isCircuitBreakerOpen = IF n > circuitBreakerThreshold THEN TRUE ELSE @]

\* a recordFailure that leaves the time of the last failure alone
recordFailureNoStamp(c, t) ==
  LET n == c.circuitBreakerFailures + 1 IN
  [c EXCEPT !.circuitBreakerFailures = n,
            !.isCircuitBreakerOpen = IF n >= circuitBreakerThreshold THEN TRUE ELSE @]

\* recordFailure()
recordFailure(c, t) ==
  LET n == c.circuitBreakerFailures + 1 IN
  [c EXCEPT !.circuitBreakerFailures = n,
            !.circuitBreakerLastFailure = t,
            !.isCircuitBreakerOpen = IF n >= circuitBreakerThreshold THEN TRUE ELSE @]

\* a success that closes the breaker and keeps the failure count
recordSuccessKeepsCount(c) ==
  IF c.circuitBreakerFailures > 0
    THEN [c EXCEPT !.isCircuitBreakerOpen = FALSE]
  ELSE c

\* a success that resets the count only when the breaker is open
recordSuccessOnlyWhenOpen(c) ==
  IF c.isCircuitBreakerOpen
    THEN [c EXCEPT !.circuitBreakerFailures = 0, !.isCircuitBreakerOpen = FALSE]
  ELSE c

recordSuccess(c) ==
  IF c.circuitBreakerFailures > 0
    THEN [c EXCEPT !.circuitBreakerFailures = 0, !.isCircuitBreakerOpen = FALSE]
  ELSE c

\* RedisClient.isReady(): this.isConnected && this.client?.isReady, where the
\* node-redis client is ready once its 'ready' event has been emitted
isReady(c, sk) == c.isConnected /\ c.client /\ sk = "ready"

\* getClient(): TRUE when it returns the client, FALSE when it returns null
getClient(c) == c.client /\ c.isConnected

\* getClientOrThrow(): the client, or the error 'Redis client not connected'
getClientOrThrow(c) ==
  [ret |-> c.client /\ c.isConnected, raised |-> ~(c.client /\ c.isConnected)]

\* guards that count a call on a disconnected client as a failure
executeWithFallbackEnterCounts(c, t) ==
  LET chk == isCircuitBreakerTripped(c, t) IN
  IF chk.ret THEN [go |-> FALSE, path |-> "breaker", c |-> chk.c]
  ELSE IF ~chk.c.isConnected \/ ~chk.c.client
    THEN [go |-> FALSE, path |-> "disconnected", c |-> recordFailure(chk.c, t)]
  ELSE [go |-> TRUE, path |-> "", c |-> chk.c]

\* executeWithFallback up to the call of operation(): go = FALSE when the
\* fallback is returned at once, path says why
executeWithFallbackEnter(c, t) ==
  LET chk == isCircuitBreakerTripped(c, t) IN
  IF chk.ret THEN [go |-> FALSE, path |-> "breaker", c |-> chk.c]
  ELSE IF ~chk.c.isConnected \/ ~chk.c.client
    THEN [go |-> FALSE, path |-> "disconnected", c |-> chk.c]
  ELSE [go |-> TRUE, path |-> "", c |-> chk.c]

\* executeWithFallback after operation() resolved with result
executeWithFallbackReturn(c, result) ==
  [c |-> recordSuccess(c), ret |-> result, raised |-> FALSE, path |-> "ok"]

\* a catch block that records the failure and throws the error again
executeWithFallbackRethrow(c, t, fallback) ==
  [c |-> recordFailure(c, t), ret |-> JUndefined, raised |-> TRUE, path |-> "failed"]

\* executeWithFallback after operation() threw: the catch block
executeWithFallbackCatch(c, t, fallback) ==
  [c |-> recordFailure(c, t), ret |-> fallback, raised |-> FALSE, path |-> "failed"]

\* the fallback each helper hands to executeWithFallback
Fallback(op) ==
  CASE op = "get" -> JNull
    [] op = "set" -> JBool(FALSE)
    [] op = "del" -> JBool(FALSE)
    [] op = "clearPattern" -> JNum(0)

\* --------------------------------------------------------------- state
VARIABLES
  redisClient,  \* the singleton RedisClient (fields as in the constructor)
  sock,         \* state of the store connection of the node-redis client
  retries,      \* reconnect attempts the connection has made since it was last ready
  conn,         \* the connect() call in progress, if any, and its last return value
  now,          \* Date.now()
  store,        \* the remote store: key -> [raw, exp]
  pipe,         \* commands sent to the store and not yet answered, in order
  db,           \* version of the blog collection in the database
  slot          \* the request flows (HTTP requests and direct cache calls)

vars == <<redisClient, sock, retries, conn, now, store, pipe, db, slot>>

Flows == {1, 2}
Methods == {"POST", "PUT", "DELETE"}

NoEntry == [raw |-> <<>>, exp |-> 0]
\* expiry of an entry written without a time to live
NoExpiry == -1
Live(st, k, t) == st[k] # NoEntry /\ (st[k].exp = NoExpiry \/ st[k].exp > t)

IdleSlot ==
  [pc |-> "idle", kind |-> "none", method |-> "", url |-> <<>>, key |-> <<>>,
   seen |-> <<>>, cached |-> JNull, wrapped |-> FALSE, status |-> 0,
   body |-> JNull, sent |-> FALSE, out |-> <<>>, xcache |-> "", calls |-> 0,
   snap |-> -1, pend |-> 0, op |-> "", val |-> JNull, ttl |-> 0,
   ret |-> JNull, raised |-> FALSE, path |-> "", probe |-> FALSE,
   was |-> FALSE, fell |-> FALSE,
   api |-> "", id |-> "", arg |-> TRUE, again |-> FALSE, deleted |-> 0,
   floor |-> -1, mongo |-> -1, mongoPing |-> TRUE, closed |-> FALSE,
   health |-> [status |-> "", mongodb |-> "", redis |-> "", ready |-> FALSE]]

\* options of the cacheResponse instance mounted on a url.  blogCache.list and
\* blogCache.single pass a number where an options object is expected, so
\* every option keeps its default.
MountOf(url) ==
  IF url = ProbeUrl THEN [keyGenerator |-> "custom", ttl |-> ShortTtl, skipCache |-> FALSE]
  ELSE IF url = SkipUrl THEN [keyGenerator |-> "default", ttl |-> DefaultTtl, skipCache |-> TRUE]
  ELSE IF url = ThrowUrl THEN [keyGenerator |-> "throwing", ttl |-> DefaultTtl, skipCache |-> FALSE]
  ELSE [keyGenerator |-> "default", ttl |-> DefaultTtl, skipCache |-> FALSE]

\* the first argument the route passes to cacheResponse as the time to live:
\* blogCache.list 300, blogCache.single 900, an options object's ttl otherwise
ConfiguredTtl(url) ==
  IF url = ListUrl THEN 300 ELSE IF url = DetailUrl THEN 900 ELSE MountOf(url).ttl

\* a keyGenerator option may be any function of the request, one that throws
\* included
keyGeneratorThrows(m) == m.keyGenerator = "throwing"

keyGenerator(m, method, url) ==
  IF m.keyGenerator = "custom" THEN customKeyGenerator(method, url)
  ELSE defaultKeyGenerator(method, url)

\* a success test that takes 300 for a success
IsSuccessStatusInclusive(code) == code >= 200 /\ code <= 300
\* a success test without an upper limit
IsSuccessStatusNoLimit(code) == code >= 200

\* `res.statusCode >= 200 && res.statusCode < 300`
IsSuccessStatus(code) == code >= 200 /\ code < 300

\* what the blog handlers answer with for a database at version v
ListBody(v) == JArr(<<JNum(v)>>)
DetailBody(v) == JObj(<< <<"likes", JNum(v)>> >>)
ErrorBody == JObj(<< <<"error", JStr("e")>> >>)
\* bodies and statuses a handler behind cacheResponse may answer with
ProbeBodies == {JNum(0), JObj(<< <<"ok", JBool(TRUE)>> >>)}
ProbeStatuses == {200, 300}

\* arguments of direct calls of the cache helpers
CallKeys == {UserKey}
CallPatterns == {<<"*">>, <<"blogs", ":", "*">>}
CallValues == {JNum(0), JObj(<< <<"name", JStr("a")>> >>)}
CallTtls == {ShortTtl}

\* a set that sends a string as it is, without JSON.stringify
FirstCommandUnquoted(own, op, k, v, ttl) ==
  [own |-> own, op |-> op,
   kind |-> CASE op = "get" -> "GET" [] op = "set" -> "SETEX"
              [] op = "del" -> "DEL" [] op = "clearPattern" -> "KEYS",
   key |-> k,
   raw |-> IF op # "set" THEN <<>> ELSE IF v[1] = "str" THEN <<v[2]>> ELSE Stringify(v),
   ttl |-> ttl,
   ks |-> IF op = "del" THEN {k} ELSE {}]

\* the command a helper sends first
FirstCommand(own, op, k, v, ttl) ==
  [own |-> own, op |-> op,
   kind |-> CASE op = "get" -> "GET" [] op = "set" -> "SETEX"
              [] op = "del" -> "DEL" [] op = "clearPattern" -> "KEYS",
   key |-> k,
   raw |-> IF op = "set" THEN Stringify(v) ELSE <<>>,
   ttl |-> ttl,
   ks |-> IF op = "del" THEN {k} ELSE {}]

Init ==
  /\ redisClient = NewRedisClient
  /\ sock = "none"
  /\ retries = 0
  /\ conn = [pc |-> "idle", ret |-> FALSE, raised |-> FALSE]
  /\ now = 0
  /\ store = [k \in Keys |-> NoEntry]
  /\ pipe = <<>>
  /\ db = 0
  /\ slot = [r \in Flows |-> IdleSlot]

\* ---------------------------------------------------------- environment
\* time passes; the store drops the entries whose TTL has run out
Tick(limit) ==
  /\ now < limit
  /\ now' = now + TickMs
  /\ store' = [k \in Keys |-> IF Live(store, k, now + TickMs) THEN store[k] ELSE NoEntry]
  /\ UNCHANGED <<redisClient, sock, retries, conn, pipe, db, slot>>

\* connect()
Connect ==
  /\ conn.pc # "awaiting"
  /\ LET chk == isCircuitBreakerTripped(redisClient, now) IN
     IF chk.ret
       THEN /\ redisClient' = chk.c
            /\ conn' = [pc |-> "done", ret |-> FALSE, raised |-> FALSE]
            /\ UNCHANGED <<sock, retries>>
     ELSE IF chk.c.client /\ chk.c.isConnected
       THEN /\ redisClient' = chk.c
            /\ conn' = [pc |-> "done", ret |-> TRUE, raised |-> FALSE]
            /\ UNCHANGED <<sock, retries>>
     ELSE /\ sock \in {"none", "ended"}
          /\ redisClient' = [chk.c EXCEPT !.client = TRUE]
          /\ sock' = "connecting"
          /\ retries' = 0
          /\ conn' = [pc |-> "awaiting", ret |-> FALSE, raised |-> FALSE]
  /\ UNCHANGED <<now, store, pipe, db, slot>>

\* 'connect' event
OnConnect ==
  /\ sock \in {"connecting", "reconnecting"}
  /\ sock' = "connected"
  /\ redisClient' = recordSuccess([redisClient EXCEPT !.isConnected = TRUE,
                                                       !.retryAttempts = 0])
  /\ UNCHANGED <<retries, conn, now, store, pipe, db, slot>>

\* 'ready' event; a pending client.connect() resolves and connect() returns true
OnReady ==
  /\ sock = "connected"
  /\ sock' = "ready"
  /\ retries' = 0
  /\ conn' = IF conn.pc = "awaiting" THEN [pc |-> "done", ret |-> TRUE, raised |-> FALSE]
             ELSE conn
  /\ UNCHANGED <<redisClient, now, store, pipe, db, slot>>

\* reconnectStrategy(retries): TRUE when it returns a delay, FALSE when it
\* records a failure and returns the error that ends reconnecting
reconnectStrategyRetries(n) == ~(n > maxRetries)

\* Math.pow(b, e) for a natural exponent
RECURSIVE Pow(_, _)
Pow(b, e) == IF e = 0 THEN 1 ELSE b * Pow(b, e - 1)

\* a backoff without the cap
reconnectStrategyDelayUncapped(n) == retryDelay * Pow(2, n)

\* reconnectStrategy(retries), the delay it returns:
\* Math.min(this.retryDelay * Math.pow(2, retries), 10000)
reconnectStrategyDelay(n) ==
  LET d == retryDelay * Pow(2, n) IN
  IF d < maxRetryDelay THEN d ELSE maxRetryDelay

\* a catch block of connect() that records the failure and throws the error on
connectCatchRethrow(c, t) ==
  [c |-> recordFailure([c EXCEPT !.isConnected = FALSE], t),
   ret |-> FALSE, raised |-> TRUE]

\* the catch block of connect(): client.connect() was rejected
connectCatch(c, t) ==
  [c |-> recordFailure([c EXCEPT !.isConnected = FALSE], t),
   ret |-> FALSE, raised |-> FALSE]

\* 'error' event followed by the reconnect decision of the connection
OnError ==
  /\ sock \in {"connecting", "connected", "ready", "reconnecting"}
  /\ LET c1 == recordFailure([redisClient EXCEPT !.isConnected = FALSE], now) IN
     IF reconnectStrategyRetries(retries)
       THEN /\ c1.circuitBreakerFailures <= MaxFailures
            /\ redisClient' = c1
            /\ sock' = "reconnecting"
            /\ retries' = retries + 1
            /\ UNCHANGED conn
     ELSE LET c2 == recordFailure(c1, now)
              out == connectCatch(c2, now)
              c3 == IF conn.pc = "awaiting" THEN out.c ELSE c2 IN
          /\ c3.circuitBreakerFailures <= MaxFailures
          /\ redisClient' = c3
          /\ sock' = "ended"
          /\ retries' = 0
          /\ conn' = IF conn.pc = "awaiting"
                       THEN [pc |-> "done", ret |-> out.ret, raised |-> out.raised]
                     ELSE conn
  /\ UNCHANGED <<now, store, pipe, db, slot>>

\* ------------------------------------------------- cache helpers and store
\* a catch block that answers the request itself instead of calling next()
cacheResponseCatchAnswers(s) ==
  [s EXCEPT !.xcache = "ERROR", !.status = 500, !.sent = TRUE, !.pc = "done"]

\* the catch block of cacheResponse: mark the response and call next()
cacheResponseCatch(s) ==
  [s EXCEPT !.xcache = "ERROR", !.pc = "handler"]

\* a miss branch that calls next() without overriding res.json
cacheResponseAfterGetNoOverride(s, o) ==
  IF o.raised
    THEN cacheResponseCatch(s)
  ELSE IF Truthy(o.ret)
    THEN [s EXCEPT !.cached = o.ret, !.xcache = "HIT", !.status = 200,
                   !.sent = TRUE, !.out = Stringify(o.ret), !.pc = "done"]
  ELSE [s EXCEPT !.cached = o.ret, !.pc = "handler"]

\* cacheResponse after `await cache.get(cacheKey)` has returned o
cacheResponseAfterGet(s, o) ==
  IF o.raised
    THEN cacheResponseCatch(s)
  ELSE IF Truthy(o.ret)
    THEN [s EXCEPT !.cached = o.ret, !.xcache = "HIT", !.status = 200,
                   !.sent = TRUE, !.out = Stringify(o.ret), !.pc = "done"]
  ELSE [s EXCEPT !.cached = o.ret, !.wrapped = TRUE, !.pc = "handler"]

\* an invalidation run that stops at the first pattern that fails to clear
ResumeStopsAtFailure(s, o, c0) ==
  LET s1 == [s EXCEPT !.ret = o.ret, !.raised = o.raised, !.path = o.path,
                      !.was = c0.circuitBreakerFailures > 0,
                      !.fell = @ \/ o.path # "ok"] IN
  CASE s.kind = "get" /\ s.op = "get" -> cacheResponseAfterGet(s1, o)
    [] s.kind = "mut" /\ o.path # "ok" -> [s1 EXCEPT !.pend = 0, !.pc = "done"]
    [] s.kind = "mut" -> [s1 EXCEPT !.pend = @ - 1,
                                    !.pc = IF s.pend = 1 THEN "done" ELSE @]
    [] OTHER -> [s1 EXCEPT !.pc = "done"]

\* the flow that awaited a cache helper goes on with its outcome o
\* (was: the helper found recorded failures when it finished; fell: a helper
\* call of the flow returned its fallback)
Resume(s, o, c0) ==
  LET s1 == [s EXCEPT !.ret = o.ret, !.raised = o.raised, !.path = o.path,
                      !.was = c0.circuitBreakerFailures > 0,
                      !.fell = @ \/ o.path # "ok"] IN
  CASE s.kind = "get" /\ s.op = "get" -> cacheResponseAfterGet(s1, o)
    [] s.kind = "mut" -> [s1 EXCEPT !.pend = @ - 1,
                                    !.pc = IF s.pend = 1 THEN "done" ELSE @]
    [] OTHER -> [s1 EXCEPT !.pc = "done"]

\* outcome of a helper that returns at once without reaching the store
Shortcut(e, op) == [c |-> e.c, ret |-> Fallback(op), raised |-> FALSE, path |-> e.path]

\* a call of cache.get / set / del / clearPattern, directly (api = "") or by the
\* sessionCache function api for user id.  arg: the caller passed a TTL;
\* again: the call repeats the clearPattern the flow has just completed;
\* closed: the call is made after the client's connection has ended;
\* deleted: the number of keys the store reports as removed
CallHelper(r, api, id, op, k, v, arg, ttl) ==
  /\ slot[r].pc \in {"idle", "done"}
  /\ LET e == executeWithFallbackEnter(redisClient, now)
         s == [IdleSlot EXCEPT !.kind = "call", !.op = op, !.key = k, !.val = v, !.ttl = ttl,
                               !.probe = redisClient.isCircuitBreakerOpen /\ e.path # "breaker",
                               !.api = api, !.id = id, !.arg = arg,
                               !.closed = redisClient.client /\ sock = "ended",
                               !.again = /\ op = "clearPattern"
                                         /\ slot[r].kind = "call" /\ slot[r].pc = "done"
                                         /\ slot[r].op = "clearPattern"
                                         /\ slot[r].key = k /\ slot[r].path = "ok"] IN
     IF e.go /\ getClient(e.c) /\ sock = "closing"
       \* quit() has closed the client: the command is rejected at once
       THEN LET o == executeWithFallbackCatch(e.c, now, Fallback(op)) IN
            /\ o.c.circuitBreakerFailures <= MaxFailures
            /\ redisClient' = o.c
            /\ pipe' = pipe
            /\ slot' = [slot EXCEPT ![r] = Resume(s, o, e.c)]
     ELSE /\ redisClient' = e.c
          /\ IF e.go /\ getClient(e.c)
               THEN /\ pipe' = Append(pipe, FirstCommand(r, op, k, v, ttl))
                    /\ slot' = [slot EXCEPT ![r] = [s EXCEPT !.pc = "callWait"]]
             ELSE /\ pipe' = pipe
                  /\ slot' = [slot EXCEPT ![r] = Resume(s, Shortcut(e, op), redisClient)]
  /\ UNCHANGED <<sock, retries, conn, now, store, db>>

\* a direct call of cache.get / set / del / clearPattern with every argument
CacheCall(r, op, k, v, ttl) == CallHelper(r, "", "", op, k, v, TRUE, ttl)

\* `ttl = 300` of set and `ttl = 3600` of setUser: the TTL a call without one gets
setDefaultTtl == 300
setUserDefaultTtl == 3600
\* a set that always stores with its default TTL
setTtlIgnored(arg, ttl) == setDefaultTtl
setTtl(arg, ttl) == IF arg THEN ttl ELSE setDefaultTtl
\* a setUser that falls back to the TTL of set
setUserTtlShort(arg, ttl) == IF arg THEN ttl ELSE setDefaultTtl
setUserTtl(arg, ttl) == IF arg THEN ttl ELSE setUserDefaultTtl

\* sessionCache.setUser / getUser / invalidateUser
setUser(r, id, data, arg, ttl) ==
  CallHelper(r, "setUser", id, "set", userKey(id), data, arg, setTtl(TRUE, setUserTtl(arg, ttl)))
getUser(r, id) == CallHelper(r, "getUser", id, "get", userKey(id), JNull, TRUE, 0)
invalidateUser(r, id) == CallHelper(r, "invalidateUser", id, "del", userKey(id), JNull, TRUE, 0)

\* text that is not JSON, and flow r writing it under k with the store
\* client itself: `await client.set(key, 'invalid-json-data')`
CorruptText == <<"invalid-json-data">>
CorruptWrite(r, k) ==
  /\ slot[r].pc \in {"idle", "done"}
  /\ getClient(redisClient)
  /\ store' = [store EXCEPT ![k] = [raw |-> CorruptText, exp |-> NoExpiry]]
  /\ slot' = [slot EXCEPT ![r] = [IdleSlot EXCEPT !.kind = "raw", !.key = k, !.pc = "done"]]
  /\ UNCHANGED <<redisClient, sock, retries, conn, now, pipe, db>>

\* get: the answer to client.get(key) arrives (ok) or the command fails
StoreReplyGet(ok) ==
  /\ pipe # <<>>
  /\ Head(pipe).kind = "GET"
  /\ LET h == Head(pipe)
         value == IF Live(store, h.key, now) THEN store[h.key].raw ELSE <<>>
         o == IF ~ok THEN executeWithFallbackCatch(redisClient, now, Fallback("get"))
              ELSE IF value # <<>>
                THEN IF JsonParse(value).ok
                       THEN executeWithFallbackReturn(redisClient, JsonParse(value).v)
                     ELSE executeWithFallbackCatch(redisClient, now, Fallback("get"))
              ELSE executeWithFallbackReturn(redisClient, JNull) IN
     /\ o.c.circuitBreakerFailures <= MaxFailures
     /\ redisClient' = o.c
     /\ slot' = [slot EXCEPT ![h.own] =
                   Resume([@ EXCEPT !.seen = IF ok THEN value ELSE <<>>], o, redisClient)]
  /\ pipe' = Tail(pipe)
  /\ UNCHANGED <<sock, retries, conn, now, store, db>>

\* set: the answer to client.setEx(key, ttl, text) arrives or the command fails
StoreReplySetEx(ok) ==
  /\ pipe # <<>>
  /\ Head(pipe).kind = "SETEX"
  /\ LET h == Head(pipe)
         o == IF ok THEN executeWithFallbackReturn(redisClient, JBool(TRUE))
              ELSE executeWithFallbackCatch(redisClient, now, Fallback("set")) IN
     /\ o.c.circuitBreakerFailures <= MaxFailures
     /\ redisClient' = o.c
     /\ store' = IF ok THEN [store EXCEPT ![h.key] = [raw |-> h.raw, exp |-> now + h.ttl * 1000]]
                 ELSE store
     /\ slot' = [slot EXCEPT ![h.own] = Resume(@, o, redisClient)]
  /\ pipe' = Tail(pipe)
  /\ UNCHANGED <<sock, retries, conn, now, db>>

\* effect of DEL on the keys ks, of which it removes those that exist
DelKeysFlush(st, ks) == [k \in Keys |-> IF ks # {} THEN NoEntry ELSE st[k]]
DelKeysNone(st, ks) == st
DelKeysOne(st, ks) ==
  [k \in Keys |-> IF ks # {} /\ k = (CHOOSE x \in ks : TRUE) THEN NoEntry ELSE st[k]]
DelKeys(st, ks) == [k \in Keys |-> IF k \in ks THEN NoEntry ELSE st[k]]

\* del and the second half of clearPattern: the answer to client.del arrives
StoreReplyDel(ok) ==
  /\ pipe # <<>>
  /\ Head(pipe).kind = "DEL"
  /\ LET h == Head(pipe)
         result == IF h.op = "del" THEN JBool(TRUE) ELSE JNum(Cardinality(h.ks))
         o == IF ok THEN executeWithFallbackReturn(redisClient, result)
              ELSE executeWithFallbackCatch(redisClient, now, Fallback(h.op)) IN
     /\ o.c.circuitBreakerFailures <= MaxFailures
     /\ redisClient' = o.c
     /\ store' = IF ok THEN DelKeys(store, h.ks) ELSE store
     /\ slot' = [slot EXCEPT ![h.own] =
                   Resume([@ EXCEPT !.deleted =
                             IF ok THEN Cardinality({k \in h.ks : Live(store, k, now)})
                             ELSE 0],
                          o, redisClient)]
  /\ pipe' = Tail(pipe)
  /\ UNCHANGED <<sock, retries, conn, now, db>>

\* clearPattern: the answer to client.keys(pattern) arrives; with matches the
\* helper sends client.del(keys), without it returns 0
StoreReplyKeys(ok) ==
  /\ pipe # <<>>
  /\ Head(pipe).kind = "KEYS"
  /\ LET h == Head(pipe)
         keys == {k \in Keys : Live(store, k, now) /\ GlobMatch(h.key, k)} IN
     IF ok /\ keys # {}
       THEN /\ pipe' = Append(Tail(pipe), [h EXCEPT !.kind = "DEL", !.ks = keys])
            /\ UNCHANGED <<redisClient, slot>>
     ELSE LET o == IF ok THEN executeWithFallbackReturn(redisClient, JNum(0))
                   ELSE executeWithFallbackCatch(redisClient, now, Fallback("clearPattern")) IN
          /\ o.c.circuitBreakerFailures <= MaxFailures
          /\ redisClient' = o.c
          /\ slot' = [slot EXCEPT ![h.own] = Resume(@, o, redisClient)]
          /\ pipe' = Tail(pipe)
  /\ UNCHANGED <<sock, retries, conn, now, store, db>>

\* ---------------------------------------------------------- cacheResponse
\* a guard that forgets the method of the request
BypassSkipOnly(method, m) == m.skipCache

\* `if (req.method !== 'GET' || skipCache) return next()`
Bypass(method, m) == method # "GET" \/ m.skipCache

\* the database version written by the mutation of another flow whose
\* invalidation has run to its end with every pattern cleared (-1: none)
InvalidatedVersion(r) ==
  LET qs == {q \in Flows \ {r} :
               /\ slot[q].kind = "mut" /\ slot[q].pc = "done"
               /\ slot[q].pend = 0 /\ slot[q].snap >= 0 /\ ~slot[q].fell} IN
  IF qs = {} THEN -1 ELSE slot[CHOOSE q \in qs : \A p \in qs : slot[p].snap <= slot[q].snap].snap

\* a request reaches the cacheResponse instance mounted on its url
\* (floor records InvalidatedVersion at the arrival of the request)
CacheRequest(r, method, url) ==
  /\ slot[r].pc \in {"idle", "done"}
  /\ LET m == MountOf(url)
         s == [IdleSlot EXCEPT !.kind = "get", !.method = method, !.url = url,
                               !.floor = InvalidatedVersion(r)] IN
     IF Bypass(method, m)
       THEN /\ slot' = [slot EXCEPT ![r] = [s EXCEPT !.pc = "handler"]]
            /\ UNCHANGED <<redisClient, pipe>>
     ELSE IF keyGeneratorThrows(m)
       THEN /\ slot' = [slot EXCEPT ![r] = cacheResponseCatch(s)]
            /\ UNCHANGED <<redisClient, pipe>>
     ELSE LET cacheKey == keyGenerator(m, method, url)
              e == executeWithFallbackEnter(redisClient, now)
              s1 == [s EXCEPT !.key = cacheKey, !.ttl = m.ttl, !.op = "get"] IN
          /\ redisClient' = e.c
          /\ IF e.go /\ getClient(e.c)
               THEN /\ pipe' = Append(pipe, FirstCommand(r, "get", cacheKey, JNull, 0))
                    /\ slot' = [slot EXCEPT ![r] = [s1 EXCEPT !.pc = "lookup"]]
             ELSE /\ pipe' = pipe
                  /\ slot' = [slot EXCEPT ![r] = Resume(s1, Shortcut(e, "get"), redisClient)]
  /\ UNCHANGED <<sock, retries, conn, now, store, db>>

\* a GET request reaches the cacheResponse instance mounted on its url
GetRequest(r, url) == CacheRequest(r, "GET", url)

\* answers the wrapped route handler can give for the database it reads
HandlerAnswers(url, v) ==
  IF url = ListUrl THEN {<<200, ListBody(v)>>, <<503, ErrorBody>>}
  ELSE IF url = DetailUrl THEN {<<200, DetailBody(v)>>, <<404, ErrorBody>>}
  ELSE {<<st, b>> : st \in ProbeStatuses, b \in ProbeBodies}

\* next(): the route handler runs and reads the database
HandlerRead(r) ==
  /\ slot[r].pc = "handler"
  /\ slot[r].kind = "get"
  /\ \E a \in HandlerAnswers(slot[r].url, db) :
       slot' = [slot EXCEPT ![r] = [@ EXCEPT !.calls = @ + 1, !.snap = db,
                                             !.status = a[1], !.body = a[2],
                                             !.pc = "respond"]]
  /\ UNCHANGED <<redisClient, sock, retries, conn, now, store, pipe, db>>

\* an override that holds the response back until the cache write is done
HandlerRespondAfterWrite(r) ==
  /\ slot[r].pc = "respond"
  /\ LET s == slot[r]
         cache == s.wrapped /\ IsSuccessStatus(s.status) IN
     slot' = [slot EXCEPT ![r] =
                [s EXCEPT !.sent = ~cache, !.out = Stringify(s.body),
                          !.xcache = IF cache THEN "MISS" ELSE @,
                          !.pc = IF cache THEN "setPending" ELSE "done"]]
  /\ UNCHANGED <<redisClient, sock, retries, conn, now, store, pipe, db>>

\* the handler calls res.status(code).json(data): through the override of
\* cacheResponse when the lookup missed, else through Express directly
HandlerRespond(r) ==
  /\ slot[r].pc = "respond"
  /\ LET s == slot[r]
         cache == s.wrapped /\ IsSuccessStatus(s.status) IN
     slot' = [slot EXCEPT ![r] =
                [s EXCEPT !.sent = TRUE, !.out = Stringify(s.body),
                          !.xcache = IF cache THEN "MISS" ELSE @,
                          !.pc = IF cache THEN "setPending" ELSE "done"]]
  /\ UNCHANGED <<redisClient, sock, retries, conn, now, store, pipe, db>>

\* the setImmediate callback of the override: cache.set(cacheKey, data, ttl)
CacheWrite(r) ==
  /\ slot[r].pc = "setPending"
  /\ LET s == [slot[r] EXCEPT !.op = "set"]
         e == executeWithFallbackEnter(redisClient, now) IN
     /\ redisClient' = e.c
     /\ IF e.go /\ getClient(e.c)
          THEN /\ pipe' = Append(pipe, FirstCommand(r, "set", s.key, s.body, s.ttl))
               /\ slot' = [slot EXCEPT ![r] = [s EXCEPT !.pc = "setWait"]]
        ELSE /\ pipe' = pipe
             /\ slot' = [slot EXCEPT ![r] = Resume(s, Shortcut(e, "set"), redisClient)]
  /\ UNCHANGED <<sock, retries, conn, now, store, db>>

\* -------------------------------------------------------- invalidateCache
\* res.json of Express calls this.send, which calls this.end: a response sent
\* with res.json passes the three overrides wrapResponse installs
WrappedMethodsPassed == 3

\* a POST / PUT / DELETE on the blog routes reaches blogInvalidation.all
MutRequest(r, method) ==
  /\ slot[r].pc \in {"idle", "done"}
  /\ slot' = [slot EXCEPT ![r] = [IdleSlot EXCEPT !.kind = "mut", !.method = method,
                                                  !.url = ListUrl, !.pc = "handler"]]
  /\ UNCHANGED <<redisClient, sock, retries, conn, now, store, pipe, db>>

\* the mutating handler validates, writes the database and answers with
\* res.status(code).json(...): 201 (POST) or 200 when it succeeded, else 400;
\* wrapResponse schedules performInvalidation once per override passed
HandlerMutate(r) ==
  /\ slot[r].pc = "handler"
  /\ slot[r].kind = "mut"
  /\ \E valid \in BOOLEAN :
       LET code == IF ~valid THEN 400 ELSE IF slot[r].method = "POST" THEN 201 ELSE 200
           data == IF valid THEN DetailBody(db + 1) ELSE ErrorBody
           inv == IsSuccessStatus(code) IN
       /\ valid => db < MaxDb
       /\ db' = IF valid THEN db + 1 ELSE db
       /\ slot' = [slot EXCEPT ![r] =
                     [@ EXCEPT !.calls = @ + 1, !.status = code, !.sent = TRUE,
                               !.snap = IF valid THEN db + 1 ELSE -1,
                               !.body = data, !.out = Stringify(data),
                               !.pend = IF inv THEN WrappedMethodsPassed * Len(AllPatterns)
                                        ELSE 0,
                               !.pc = IF inv THEN "invPending" ELSE "done"]]
  /\ UNCHANGED <<redisClient, sock, retries, conn, now, store, pipe>>

\* the KEYS commands of one performInvalidation run, in pattern order
RECURSIVE RunCommands(_, _)
RunCommands(r, ps) ==
  IF ps = <<>> THEN <<>>
  ELSE <<FirstCommand(r, "clearPattern", Head(ps), JNull, 0)>> \o RunCommands(r, Tail(ps))

RECURSIVE Repeat(_, _)
Repeat(cmds, n) == IF n = 0 THEN <<>> ELSE cmds \o Repeat(cmds, n - 1)

\* the setImmediate callbacks run one after the other; each performInvalidation
\* calls cache.clearPattern for every pattern before it awaits any answer
Invalidate(r) ==
  /\ slot[r].pc = "invPending"
  /\ LET s == [slot[r] EXCEPT !.op = "clearPattern"]
         e == executeWithFallbackEnter(redisClient, now) IN
     /\ redisClient' = e.c
     /\ IF e.go /\ getClient(e.c)
          THEN /\ pipe' = pipe \o Repeat(RunCommands(r, AllPatterns), WrappedMethodsPassed)
               /\ slot' = [slot EXCEPT ![r] = [s EXCEPT !.pc = "invWait"]]
        ELSE /\ pipe' = pipe
             /\ slot' = [slot EXCEPT ![r] =
                           [Resume(s, Shortcut(e, "clearPattern"), redisClient)
                              EXCEPT !.pend = 0, !.pc = "done"]]
  /\ UNCHANGED <<sock, retries, conn, now, store, db>>

\* ------------------------------------------------- overlapping connect()
\* connect() is called while the client made by an earlier call is still
\* connecting or reconnecting: `this.client && this.isConnected` is false, so
\* a new client is created and connected, and this.client refers to it; the
\* earlier client stays open with its handlers bound to the same object
ConnectOverlapping ==
  /\ sock \in {"connecting", "reconnecting"}
  /\ redisClient.replaced < MaxReplaced
  /\ LET chk == isCircuitBreakerTripped(redisClient, now) IN
     /\ ~chk.ret
     /\ ~(chk.c.client /\ chk.c.isConnected)
     /\ redisClient' = [chk.c EXCEPT !.client = TRUE, !.replaced = @ + 1]
     /\ sock' = "connecting"
     /\ retries' = 0
     /\ conn' = [pc |-> "awaiting", ret |-> FALSE, raised |-> FALSE]
  /\ UNCHANGED <<now, store, pipe, db, slot>>

\* 'connect' event of a replaced client
ReplacedOnConnect ==
  /\ redisClient.replaced > 0
  /\ redisClient' = recordSuccess([redisClient EXCEPT !.isConnected = TRUE,
                                                       !.retryAttempts = 0])
  /\ UNCHANGED <<sock, retries, conn, now, store, pipe, db, slot>>

\* 'error' event of a replaced client
ReplacedOnError ==
  /\ redisClient.replaced > 0
  /\ redisClient.circuitBreakerFailures < MaxFailures
  /\ redisClient' = recordFailure([redisClient EXCEPT !.isConnected = FALSE], now)
  /\ UNCHANGED <<sock, retries, conn, now, store, pipe, db, slot>>

\* ------------------------------------------------------- client accessors
\* flow r calls redisClient.getClient(): the client or null, never an error
AccessClient(r) ==
  /\ slot[r].pc \in {"idle", "done"}
  /\ slot' = [slot EXCEPT ![r] =
       [IdleSlot EXCEPT !.kind = "access", !.op = "getClient",
                        !.ret = IF getClient(redisClient) THEN JBool(TRUE) ELSE JNull,
                        !.raised = FALSE, !.pc = "done"]]
  /\ UNCHANGED <<redisClient, sock, retries, conn, now, store, pipe, db>>

\* flow r calls redisClient.getClientOrThrow()
AccessClientOrThrow(r) ==
  /\ slot[r].pc \in {"idle", "done"}
  /\ LET o == getClientOrThrow(redisClient) IN
     slot' = [slot EXCEPT ![r] =
       [IdleSlot EXCEPT !.kind = "access", !.op = "getClientOrThrow",
                        !.ret = IF o.ret THEN JBool(TRUE) ELSE JNull,
                        !.raised = o.raised, !.pc = "done"]]
  /\ UNCHANGED <<redisClient, sock, retries, conn, now, store, pipe, db>>

\* ---------------------------------------------------------- health checks
HealthUrl == <<"/health">>
ReadyUrl == <<"/health/ready">>
\* mongoose.connection.readyState: disconnected, connected, connecting, disconnecting
MongoStates == 0..3

\* healthCheck, the MongoDB part: the ping is sent only in state 1, and a ping
\* that throws marks the whole service degraded
healthCheckMongo(mongoState, pingOk) ==
  IF mongoState = 1 /\ ~pingOk THEN [status |-> "degraded", mongodb |-> "unhealthy"]
  ELSE [status |-> "ok",
        mongodb |-> CASE mongoState = 0 -> "disconnected"
                      [] mongoState = 1 -> "healthy"
                      [] mongoState = 2 -> "connecting"
                      [] mongoState = 3 -> "disconnecting"
                      [] OTHER -> "unknown"]

\* a Redis part that marks the service degraded when the store is not healthy
healthCheckRedisDegrades(h, redis) ==
  [h EXCEPT !.redis = redis, !.status = IF redis = "healthy" THEN @ ELSE "degraded"]

\* healthCheck, the Redis part: it records the state of the store and leaves
\* health.status alone
healthCheckRedis(h, redis) == [h EXCEPT !.redis = redis]

\* `health.status === 'degraded' ? 503 : 200`
healthStatusCode(h) == IF h.status = "degraded" THEN 503 ELSE 200

\* readinessCheck: ready only when MongoDB is connected and answers the ping;
\* services.redis is reported and takes no part in the verdict
readinessCheck(mongoState, pingOk, redisReady) ==
  LET isReadyVerdict == mongoState = 1 /\ pingOk IN
  [status |-> IF isReadyVerdict THEN "ok" ELSE "degraded",
   mongodb |-> IF isReadyVerdict THEN "healthy" ELSE "unhealthy",
   redis |-> IF redisReady THEN "healthy" ELSE "disconnected",
   ready |-> isReadyVerdict]

\* the response of a health endpoint leaves with the code of its verdict
HealthRespond(s, h) ==
  [s EXCEPT !.health = h, !.status = healthStatusCode(h), !.sent = TRUE, !.pc = "done"]

\* GET /health or GET /health/ready arrives; MongoDB is in mongoState and
\* answers the ping or not.  healthCheck pings the store when isReady()
HealthRequest(r, url, mongoState, pingOk) ==
  /\ slot[r].pc \in {"idle", "done"}
  /\ LET s == [IdleSlot EXCEPT !.kind = "health", !.method = "GET", !.url = url,
                               !.mongo = mongoState, !.mongoPing = pingOk]
         h == healthCheckMongo(mongoState, pingOk) @@ [redis |-> "unknown", ready |-> FALSE] IN
     slot' = [slot EXCEPT ![r] =
       IF url = ReadyUrl
         THEN HealthRespond(s, readinessCheck(mongoState, pingOk, isReady(redisClient, sock)))
       ELSE IF isReady(redisClient, sock)
         THEN IF getClient(redisClient)
                THEN [s EXCEPT !.health = h, !.pc = "ping"]
              ELSE HealthRespond(s, healthCheckRedis(h, "disconnected"))
       ELSE HealthRespond(s, healthCheckRedis(h, "disconnected"))]
  /\ UNCHANGED <<redisClient, sock, retries, conn, now, store, pipe, db>>

\* `await client.ping()` of healthCheck resolves (pong) or throws
HealthPing(r, pong) ==
  /\ slot[r].pc = "ping"
  /\ slot' = [slot EXCEPT ![r] =
       HealthRespond(@, healthCheckRedis(@.health, IF pong THEN "healthy" ELSE "unhealthy"))]
  /\ UNCHANGED <<redisClient, sock, retries, conn, now, store, pipe, db>>

\* flow r serves a health endpoint (MongoDB is pinged in state 1 only, so the
\* outcome of the ping is an input in that state alone)
HealthFlow(r) ==
  \/ \E u \in {HealthUrl, ReadyUrl}, m \in MongoStates, p \in BOOLEAN :
       /\ m # 1 => p
       /\ HealthRequest(r, u, m, p)
  \/ \E pong \in BOOLEAN : HealthPing(r, pong)

\* ------------------------------------------------------------------ spec
\* the store connection
Transport ==
  \/ Connect
  \/ OnConnect
  \/ OnReady
  \/ OnError

\* the store answers the oldest outstanding command
StoreReply ==
  \/ \E ok \in BOOLEAN : StoreReplyGet(ok)
  \/ \E ok \in BOOLEAN : StoreReplySetEx(ok)
  \/ \E ok \in BOOLEAN : StoreReplyDel(ok)
  \/ \E ok \in BOOLEAN : StoreReplyKeys(ok)

\* flow r calls a cache helper directly
DirectCall(r) ==
  \/ \E k \in CallKeys : CacheCall(r, "get", k, JNull, 0)
  \/ \E k \in CallKeys, v \in CallValues, t \in CallTtls : CacheCall(r, "set", k, v, t)
  \/ \E k \in CallKeys : CacheCall(r, "del", k, JNull, 0)
  \/ \E p \in CallPatterns : CacheCall(r, "clearPattern", p, JNull, 0)

\* ------------------------------------------------------------- disconnect
\* the client object once `await this.client.quit()` has settled without the
\* flag being cleared by anyone
disconnectDoneKeepsFlag(c, ok, t) == c

\* the client object once `await this.client.quit()` has settled.  ok: QUIT
\* was answered, line 241 and the 'end' handler both clear isConnected;
\* ~ok: the socket broke first, the 'error' handler clears isConnected and
\* records the failure, and the catch block only logs
disconnectDone(c, ok, t) ==
  IF ok THEN [c EXCEPT !.isConnected = FALSE]
  ELSE recordFailure([c EXCEPT !.isConnected = FALSE], t)

\* disconnect(), called by flow r (gracefulShutdown): without a client it
\* returns at once; on a client already closed quit() throws and the catch
\* block logs; otherwise QUIT is queued behind the outstanding commands and
\* the client accepts no further command
Disconnect(r) ==
  /\ slot[r].pc \in {"idle", "done"}
  /\ conn.pc # "awaiting"
  /\ LET s == [IdleSlot EXCEPT !.kind = "shutdown", !.op = "disconnect",
                               !.ret = JUndefined] IN
     IF ~redisClient.client
       THEN /\ slot' = [slot EXCEPT ![r] = [s EXCEPT !.pc = "done", !.path = "noclient"]]
            /\ UNCHANGED <<sock, pipe>>
     ELSE IF sock \in {"ended", "closing"}
       THEN /\ slot' = [slot EXCEPT ![r] = [s EXCEPT !.pc = "done", !.path = "failed"]]
            /\ UNCHANGED <<sock, pipe>>
     ELSE /\ sock' = "closing"
          /\ pipe' = Append(pipe, [own |-> r, op |-> "quit", kind |-> "QUIT",
                                   key |-> <<>>, raw |-> <<>>, ttl |-> 0, ks |-> {}])
          /\ slot' = [slot EXCEPT ![r] = [s EXCEPT !.pc = "quitWait"]]
  /\ UNCHANGED <<redisClient, retries, conn, now, store, db>>

\* the answer to QUIT arrives and the connection ends, or the socket breaks
\* first; either way disconnect() returns normally
StoreReplyQuit(ok) ==
  /\ pipe # <<>>
  /\ Head(pipe).kind = "QUIT"
  /\ LET h == Head(pipe)
         c1 == disconnectDone(redisClient, ok, now) IN
     /\ c1.circuitBreakerFailures <= MaxFailures
     /\ redisClient' = c1
     /\ slot' = [slot EXCEPT ![h.own] =
                   [@ EXCEPT !.pc = "done", !.raised = FALSE,
                             !.path = IF ok THEN "ok" ELSE "failed"]]
  /\ pipe' = Tail(pipe)
  /\ sock' = "ended"
  /\ retries' = 0
  /\ UNCHANGED <<conn, now, store, db>>

\* flow r shuts the store connection down
ShutdownFlow(r) ==
  \/ Disconnect(r)
  \/ \E ok \in BOOLEAN : StoreReplyQuit(ok)

\* flow r serves a GET through cacheResponse
ReadFlow(r) ==
  \/ \E u \in Urls : GetRequest(r, u)
  \/ HandlerRead(r)
  \/ HandlerRespond(r)
  \/ CacheWrite(r)

\* flow r serves a request of any method through a cacheResponse instance
\* made with options
MountFlow(r) ==
  \/ \E method \in {"GET", "POST"}, u \in MountUrls : CacheRequest(r, method, u)
  \/ HandlerRead(r)
  \/ HandlerRespond(r)
  \/ CacheWrite(r)

\* flow r serves GET /api/blogs through blogCache.list
ListFlow(r) ==
  \/ GetRequest(r, ListUrl)
  \/ HandlerRead(r)
  \/ HandlerRespond(r)
  \/ CacheWrite(r)

\* flow r serves a mutation through invalidateCache
WriteFlow(r) ==
  \/ \E m \in Methods : MutRequest(r, m)
  \/ HandlerMutate(r)
  \/ Invalidate(r)

\* arguments of the calls made while the store holds several entries
StoreKeys == {userKey(id) : id \in UserIds}
StorePatterns == {<<"user", ":", "*">>, <<"*", "1">>, <<"blogs", ":", "*">>}
StoreValues ==
  {JNum(0), JStr("a"), JArr(<<JNum(1), JStr("")>>),
   JObj(<< <<"items", JArr(<<JObj(<< <<"id", JNum(1)>> >>),
                             JObj(<< <<"id", JNum(2)>> >>)>>)>> >>)}
StoreTtls == {ShortTtl}
SessionValues == {JObj(<< <<"name", JStr("a")>> >>)}

\* flow r calls a cache helper or a sessionCache function, or writes raw text
StoreCall(r) ==
  \/ \E k \in StoreKeys : CacheCall(r, "get", k, JNull, 0)
  \/ \E v \in StoreValues, arg \in BOOLEAN, t \in StoreTtls :
       CallHelper(r, "", "", "set", UserKey, v, arg, setTtl(arg, t))
  \/ \E k \in StoreKeys : CacheCall(r, "del", k, JNull, 0)
  \/ \E p \in StorePatterns : CacheCall(r, "clearPattern", p, JNull, 0)
  \/ \E id \in UserIds, data \in SessionValues, arg \in BOOLEAN, t \in StoreTtls :
       setUser(r, id, data, arg, t)
  \/ \E id \in UserIds : getUser(r, id)
  \/ \E id \in UserIds : invalidateUser(r, id)
  \/ \E k \in StoreKeys : CorruptWrite(r, k)

\* the cache client under direct calls of its helpers, one call at a time
NextClient ==
  \/ Tick(MaxNow)
  \/ Transport
  \/ StoreReply
  \/ DirectCall(1)
SpecClient == Init /\ [][NextClient]_vars

\* the blog routes serving one request at a time over a connection that, once
\* established, stays up (single commands may still fail); an entry under the
\* key the documentation names is put in the cache by a direct call
NextRoutes ==
  \/ Tick(RoutesMaxNow)
  \/ Connect
  \/ OnConnect
  \/ OnReady
  \/ StoreReply
  \/ ReadFlow(1)
  \/ WriteFlow(1)
  \/ CacheCall(1, "set", DocListKey, JNum(0), DefaultTtl)
SpecRoutes == Init /\ [][NextRoutes]_vars

\* the helpers and sessionCache over a store that holds entries, called one
\* at a time over a connection that stays up (single commands may fail)
NextStore ==
  \/ Tick(StoreMaxNow)
  \/ Connect
  \/ OnConnect
  \/ OnReady
  \/ StoreReply
  \/ StoreCall(1)
SpecStore == Init /\ [][NextStore]_vars

\* cacheResponse instances made with options (a custom or a throwing
\* keyGenerator, skipCache) serving requests of any method, one at a time
NextMounts ==
  \/ Tick(RoutesMaxNow)
  \/ Connect
  \/ OnConnect
  \/ OnReady
  \/ \E ok \in BOOLEAN : StoreReplyGet(ok)
  \/ \E ok \in BOOLEAN : StoreReplySetEx(ok)
  \/ MountFlow(1)
SpecMounts == Init /\ [][NextMounts]_vars

\* the blog list route serving two requests at the same time, the second of
\* which may also be a mutation; the store answers the commands in the order
\* it received them
NextRace ==
  \/ Connect
  \/ OnConnect
  \/ OnReady
  \/ \E ok \in BOOLEAN : StoreReplyGet(ok)
  \/ \E ok \in BOOLEAN : StoreReplySetEx(ok)
  \/ \E ok \in BOOLEAN : StoreReplyKeys(ok)
  \/ ListFlow(1)
  \/ ListFlow(2)
  \/ WriteFlow(2)
SpecRace == Init /\ [][NextRace]_vars

\* the health endpoints, asked twice while the store connection comes and
\* goes and the circuit breaker opens
NextHealth ==
  \/ Transport
  \/ HealthFlow(1)
  \/ HealthFlow(2)
SpecHealth == Init /\ [][NextHealth]_vars

\* the life of the client object: connections made and lost, and callers
\* that ask for the client
NextLifecycle ==
  \/ Transport
  \/ ConnectOverlapping
  \/ ReplacedOnConnect
  \/ ReplacedOnError
  \/ AccessClient(1)
  \/ AccessClientOrThrow(1)
SpecLifecycle == Init /\ [][NextLifecycle]_vars

\* the client used directly by one flow while another flow shuts the
\* connection down and the application connects again
NextShutdown ==
  \/ Transport
  \/ StoreReply
  \/ DirectCall(1)
  \/ ShutdownFlow(2)
SpecShutdown == Init /\ [][NextShutdown]_vars

\* the blog routes during an outage of the store: the connection is not made,
\* or it is made to a store that answers no command.  Node runs every handler
\* and every setImmediate callback that is due, so the steps of a flow are
\* weakly fair; nothing obliges the store or the network to act
NextOutage ==
  \/ Tick(RoutesMaxNow)
  \/ Connect
  \/ OnConnect
  \/ OnReady
  \/ ReadFlow(1)
  \/ WriteFlow(1)
SpecOutage == Init /\ [][NextOutage]_vars /\ WF_vars(ReadFlow(1) \/ WriteFlow(1))

\* ---------------------------------------------------------------- claims
\* the fallback the documentation gives for each helper
DocumentedFallback(op, ret) ==
  \/ op = "get" /\ ret = JNull
  \/ op \in {"set", "del"} /\ ret = JBool(FALSE)
  \/ op = "clearPattern" /\ ret = JNum(0)

\* steps of a direct helper call of flow r
HelperCalled(r) ==
  slot[r].pc \in {"idle", "done"} /\ slot'[r] # slot[r] /\ slot'[r].kind = "call"
HelperFinished(r) == slot[r].pc = "callWait" /\ slot'[r].pc = "done"
\* connect() is called
ConnectCalled == conn.pc # "awaiting" /\ conn' # conn

CooldownElapsed == SinceLastFailure(redisClient, now) > circuitBreakerTimeout
NotSuccess(code) == code < 200 \/ code > 299
OwnCommands(r, kinds) == {i \in 1..Len(pipe) : pipe[i].own = r /\ pipe[i].kind \in kinds}

\* C1: a cache helper never raises, and when the client was never connected,
\* is disconnected, has its breaker open, or the store command fails, it returns
\* its fallback: null for get, false for set and del, 0 for clearPattern.
C1_HelpersFallBackWithoutRaising ==
  \A r \in Flows :
    (slot[r].kind = "call" /\ slot[r].pc = "done") =>
      /\ ~slot[r].raised
      /\ slot[r].path \in {"breaker", "disconnected", "failed"}
           => DocumentedFallback(slot[r].op, slot[r].ret)

C1_Witness ==
  /\ slot[1].kind = "call" /\ slot[1].pc = "done"
  /\ slot[1].op = "clearPattern" /\ slot[1].path = "failed" /\ slot[1].ret = JNum(0)

\* C2 (as claimed): a GET whose key holds an unexpired entry, read from the
\* store without error, is answered with that entry as a HIT and its handler
\* is never invoked.
C2_Claim ==
  \A r \in Flows :
    (slot[r].kind = "get" /\ slot[r].seen # <<>> /\ JsonParse(slot[r].seen).ok) =>
      /\ slot[r].calls = 0
      /\ slot[r].sent => (slot[r].xcache = "HIT" /\ slot[r].out = slot[r].seen)

\* C3 (as claimed): the body of a 2xx answer to a GET that missed is stored
\* under the request's key with the TTL of the mount, and a later GET that finds
\* such a body under its key is served as a HIT with the same body, whatever
\* JSON value the body is.
C3_Claim ==
  [][\A r \in Flows :
       /\ (slot[r].pc = "setWait" /\ slot'[r].pc = "done" /\ slot'[r].path = "ok")
            => store'[slot[r].key] = [raw |-> slot[r].out,
                                      exp |-> now + ConfiguredTtl(slot[r].url) * 1000]
       /\ (/\ slot'[r].kind = "get" /\ slot'[r].sent
           /\ \E v \in 0..MaxDb : \E a \in HandlerAnswers(slot'[r].url, v) :
                a[1] \in 200..299 /\ Stringify(a[2]) = slot'[r].seen)
            => (slot'[r].xcache = "HIT" /\ slot'[r].out = slot'[r].seen)]_vars

\* C4 (as claimed): once a POST, PUT or DELETE on /api/blogs has been answered
\* with a 2xx status and its invalidation has run without any failure, no entry
\* written by the blog list or blog detail route is left in the cache.
C4_Claim ==
  \A r \in Flows :
    (/\ slot[r].kind = "mut" /\ slot[r].pc = "done"
     /\ slot[r].status \in 200..299 /\ ~slot[r].fell) =>
      \A u \in {ListUrl, DetailUrl} :
        ~Live(store, keyGenerator(MountOf(u), "GET", u), now)

\* C5: a response of the wrapped handler of a GET whose status is outside
\* 200-299 is never written to the cache: no cache write is scheduled or sent.
C5_NonSuccessNeverCached ==
  \A r \in Flows :
    (slot[r].kind = "get" /\ slot[r].sent /\ NotSuccess(slot[r].status)) =>
      /\ slot[r].pc = "done"
      /\ OwnCommands(r, {"SETEX"}) = {}

C5_Witness ==
  /\ slot[1].kind = "get" /\ slot[1].wrapped /\ slot[1].sent
  /\ slot[1].status = 300 /\ slot[1].pc = "done"

\* C6: a mutating request answered with a status outside 200-299 schedules no
\* invalidation and sends no command, and no step of it changes the cache.
C6_FailedMutationLeavesCache ==
  [][\A r \in Flows :
       (slot'[r].kind = "mut" /\ slot'[r] # slot[r] /\ NotSuccess(slot'[r].status)) =>
         /\ store' = store
         /\ pipe' = pipe
         /\ slot'[r].pc \in {"handler", "done"}
         /\ slot'[r].pend = 0]_vars

C6_Witness ==
  /\ slot[1].kind = "mut" /\ slot[1].status = 400 /\ slot[1].pc = "done"
  /\ Live(store, DocListKey, now)

\* C7: the step that records the failure with which the count reaches the
\* threshold (5) leaves the breaker open; and while the breaker is open and the
\* cooldown has not elapsed, a call of get, set, del, clearPattern or connect
\* returns its fallback at once: no command is sent, no connection is attempted.
C7_OpenBreakerShortCircuits ==
  [][/\ (/\ redisClient'.circuitBreakerFailures > redisClient.circuitBreakerFailures
         /\ redisClient'.circuitBreakerFailures >= circuitBreakerThreshold)
          => redisClient'.isCircuitBreakerOpen
     /\ (redisClient.isCircuitBreakerOpen /\ ~CooldownElapsed) =>
          /\ \A r \in Flows :
               HelperCalled(r) =>
                 /\ pipe' = pipe
                 /\ slot'[r].pc = "done" /\ ~slot'[r].raised
                 /\ DocumentedFallback(slot'[r].op, slot'[r].ret)
          /\ ConnectCalled => (sock' = sock /\ conn' = [pc |-> "done", ret |-> FALSE, raised |-> FALSE])]_vars

C7_Witness ==
  /\ redisClient.isCircuitBreakerOpen /\ ~CooldownElapsed
  /\ redisClient.isConnected /\ redisClient.client
  /\ slot[1].kind = "call" /\ slot[1].pc = "done" /\ slot[1].path = "breaker"

\* C8: when a store operation completes successfully, the failure count is 0
\* and the breaker is closed afterwards, whatever failures were recorded before.
C8_SuccessResetsBreaker ==
  [][\A r \in Flows :
       (HelperFinished(r) /\ slot'[r].path = "ok") =>
         /\ redisClient'.circuitBreakerFailures = 0
         /\ ~redisClient'.isCircuitBreakerOpen]_vars

C8_Witness ==
  /\ slot[1].kind = "call" /\ slot[1].pc = "done" /\ slot[1].path = "ok" /\ slot[1].was
  /\ redisClient.circuitBreakerFailures = 0 /\ ~redisClient.isCircuitBreakerOpen

C10_Claim ==
  redisClient.isCircuitBreakerOpen <=>
    (redisClient.circuitBreakerFailures >= circuitBreakerThreshold /\ ~CooldownElapsed)

\* C10 (amended): isCircuitBreakerOpen implies that the failure count has
\* reached the threshold, and it is true whenever the count has reached the
\* threshold and the cooldown has not elapsed; it may stay true after the
\* cooldown has elapsed, until the next attempt checks the breaker.
C10_OpenFlagLazilyCleared ==
  /\ redisClient.isCircuitBreakerOpen
       => redisClient.circuitBreakerFailures >= circuitBreakerThreshold
  /\ (redisClient.circuitBreakerFailures >= circuitBreakerThreshold /\ ~CooldownElapsed)
       => redisClient.isCircuitBreakerOpen

C10_Witness == redisClient.isCircuitBreakerOpen /\ CooldownElapsed

\* C11: connect() never raises to its caller; when the connection attempt it
\* awaits fails, it returns false, the client is not connected afterwards and
\* a failure has been recorded at that moment; and a cache helper called after
\* such a connect() returns its fallback without raising.
C11_ConnectNeverRaises ==
  [][/\ ~conn'.raised
     /\ (conn.pc = "awaiting" /\ conn'.pc = "done" /\ ~conn'.ret) =>
          /\ ~redisClient'.isConnected
          /\ redisClient'.circuitBreakerFailures > redisClient.circuitBreakerFailures
          /\ redisClient'.circuitBreakerLastFailure = now
     /\ (conn.pc = "done" /\ ~conn.ret /\ sock = "ended") =>
          \A r \in Flows :
            HelperCalled(r) =>
              /\ slot'[r].pc = "done" /\ ~slot'[r].raised
              /\ DocumentedFallback(slot'[r].op, slot'[r].ret)]_vars

C11_Witness ==
  /\ conn = [pc |-> "done", ret |-> FALSE, raised |-> FALSE]
  /\ sock = "ended" /\ ~redisClient.isConnected
  /\ slot[1].kind = "call" /\ slot[1].pc = "done" /\ slot[1].path = "disconnected"

\* a call of a helper returns (at once, or when the store has answered)
Completed(r) == slot'[r] # slot[r] /\ slot'[r].kind = "call" /\ slot'[r].pc = "done"
Finished(r, op, path) ==
  HelperFinished(r) /\ slot'[r].op = op /\ slot'[r].path = path
Unavailable == ~redisClient.client \/ ~redisClient.isConnected
OpenAndCooling == redisClient.isCircuitBreakerOpen /\ ~CooldownElapsed
EntryOf(v, t, ttl) == [raw |-> Stringify(v), exp |-> t + ttl * 1000]
OthersKept(k) == \A x \in Keys \ {k} : store'[x] = store[x]

\* C12 (as claimed): a get that reads a payload which is not JSON returns null
\* without raising and counts as a miss: afterwards the failure count is 0 and
\* the breaker is closed, as after a get of a key that does not exist.
C12_Claim ==
  [][\A r \in Flows :
       (/\ HelperFinished(r) /\ slot'[r].op = "get"
        /\ slot'[r].seen # <<>> /\ ~JsonParse(slot'[r].seen).ok) =>
         /\ slot'[r].ret = JNull /\ ~slot'[r].raised
         /\ redisClient'.circuitBreakerFailures = 0
         /\ ~redisClient'.isCircuitBreakerOpen]_vars

C14_ClearPatternClearsMatches ==
  [][\A r \in Flows :
       (/\ slot[r].kind = "call" /\ slot[r].op = "clearPattern"
        /\ slot[r].pc = "callWait" /\ pipe' # pipe) =>
         /\ \A k \in Keys : ~GlobMatch(slot[r].key, k) => store'[k] = store[k]
         /\ (slot'[r].pc = "done" /\ slot'[r].path = "ok") =>
              \A k \in Keys : GlobMatch(slot[r].key, k) => ~Live(store', k, now)]_vars

C14_Witness ==
  /\ slot[1].kind = "call" /\ slot[1].op = "clearPattern" /\ slot[1].pc = "done"
  /\ slot[1].path = "ok" /\ slot[1].key = <<"*", "1">> /\ slot[1].deleted = 1
  /\ store[userKey("1")] = NoEntry /\ store[userKey("2")] # NoEntry

\* C15 (as claimed): clearPattern returns the number of keys its deletion
\* removed from the store, also when keys it enumerated are gone before the
\* deletion, and 0 when nothing matched or the operation failed.
C15_Claim ==
  [][\A r \in Flows :
       (Completed(r) /\ slot'[r].op = "clearPattern") =>
         IF slot'[r].path = "ok" THEN slot'[r].ret = JNum(slot'[r].deleted)
         ELSE slot'[r].ret = JNum(0)]_vars

\* C16: a clearPattern whose pattern matches no key returns 0 and changes no
\* entry; no clearPattern raises; and a clearPattern(p) that directly follows
\* a completed clearPattern(p) returns 0.
C16_ClearPatternNoMatch ==
  [][\A r \in Flows :
       (Completed(r) /\ slot'[r].op = "clearPattern") =>
         /\ ~slot'[r].raised
         /\ (/\ slot'[r].path = "ok" /\ Head(pipe).kind = "KEYS"
             /\ \A k \in Keys : ~(Live(store, k, now) /\ GlobMatch(slot[r].key, k))) =>
              (slot'[r].ret = JNum(0) /\ store' = store /\ pipe' = Tail(pipe))
         /\ slot'[r].again => slot'[r].ret = JNum(0)]_vars

C16_Witness ==
  /\ slot[1].kind = "call" /\ slot[1].op = "clearPattern" /\ slot[1].pc = "done"
  /\ slot[1].again /\ slot[1].path = "ok" /\ slot[1].ret = JNum(0)
  /\ slot[1].key = <<"*", "1">> /\ store[userKey("2")] # NoEntry

\* C17: a set that succeeds stores the JSON text of its value, and a get that
\* reads the text a set stored for v, before it expires, returns a value equal
\* to v: for a number, a string, an array and an object holding an array of
\* objects.
C17_SetGetRoundTrip ==
  [][\A r \in Flows :
       /\ Finished(r, "set", "ok") =>
            (slot'[r].ret = JBool(TRUE) /\ store'[slot[r].key].raw = Stringify(slot[r].val))
       /\ Finished(r, "get", "ok") =>
            \A v \in StoreValues :
              (Live(store, slot[r].key, now) /\ store[slot[r].key].raw = Stringify(v))
                => slot'[r].ret = v]_vars

C17_Witness ==
  /\ slot[1].kind = "call" /\ slot[1].op = "get" /\ slot[1].pc = "done"
  /\ slot[1].path = "ok" /\ slot[1].ret[1] = "obj"
  /\ \E v \in StoreValues : slot[1].ret = v /\ store[slot[1].key].raw = Stringify(v)

\* C18: set with a TTL of t seconds stores its key to expire t seconds after
\* the write, and set without a TTL stores it to expire 300 seconds after;
\* the store holds no entry past its expiry, and a get that succeeds returns
\* the value if the key has not expired and null if it is absent.
C18_TtlAndDefault ==
  [][/\ \A k \in Keys : (store'[k] # NoEntry /\ store'[k].exp # NoExpiry) => now' < store'[k].exp
     /\ \A r \in Flows :
          /\ (Finished(r, "set", "ok") /\ slot[r].api = "") =>
               IF slot[r].arg
                 THEN \E t \in StoreTtls : store'[slot[r].key].exp = now + t * 1000
               ELSE store'[slot[r].key].exp = now + 300 * 1000
          /\ (HelperCalled(r) /\ slot'[r].op = "set" /\ slot'[r].api = ""
              /\ ~slot'[r].arg) => slot'[r].ttl = 300
          /\ Finished(r, "get", "ok") =>
               (slot'[r].ret = JNull <=> ~Live(store, slot[r].key, now))]_vars

C18_Witness ==
  /\ slot[1].kind = "call" /\ slot[1].op = "get" /\ slot[1].pc = "done"
  /\ slot[1].path = "ok" /\ slot[1].ret # JNull /\ slot[1].api = ""
  /\ now > 0 /\ store[slot[1].key].exp = 300 * 1000

\* C19: a del(k) that succeeds leaves k absent, so that a get(k) returns null,
\* and no del changes the value or expiry of any other key.
C19_DelRemovesOnlyItsKey ==
  [][\A r \in Flows :
       /\ (HelperFinished(r) /\ slot'[r].op = "del") =>
            /\ OthersKept(slot[r].key)
            /\ slot'[r].path = "ok" =>
                 (store'[slot[r].key] = NoEntry /\ slot'[r].ret = JBool(TRUE))
            /\ slot'[r].path # "ok" => store' = store
       /\ (Finished(r, "get", "ok") /\ store[slot[r].key] = NoEntry) =>
            slot'[r].ret = JNull]_vars

C19_Witness ==
  /\ slot[1].kind = "call" /\ slot[1].op = "del" /\ slot[1].pc = "done"
  /\ slot[1].path = "ok" /\ slot[1].deleted = 1 /\ slot[1].api = ""
  /\ store[slot[1].key] = NoEntry
  /\ \E k \in Keys \ {slot[1].key} : store[k] # NoEntry

\* C20: setUser, getUser and invalidateUser send one command, on the key
\* "user:" + id: a SETEX of the data with the given TTL, or 3600 seconds
\* without one, a GET, a DEL; a setUser that succeeds stores the data under that
\* key only, a getUser that reads what setUser stored returns the data, and an
\* invalidateUser that succeeds removes that key only, so that getUser
\* returns null.
C20_SessionCache ==
  [][\A r \in Flows :
       /\ (HelperCalled(r) /\ slot'[r].api # "" /\ pipe' # pipe) =>
            LET c == pipe'[Len(pipe')] IN
            /\ pipe' = Append(pipe, c)
            /\ c.key = <<"user", ":", slot'[r].id>>
            /\ c.kind = CASE slot'[r].api = "setUser" -> "SETEX"
                          [] slot'[r].api = "getUser" -> "GET"
                          [] slot'[r].api = "invalidateUser" -> "DEL"
            /\ slot'[r].api = "setUser" =>
                 /\ c.raw = Stringify(slot'[r].val)
                 /\ ~slot'[r].arg => c.ttl = 3600
                 /\ slot'[r].arg => c.ttl \in StoreTtls
       /\ (HelperFinished(r) /\ slot[r].api # "" /\ slot'[r].path = "ok") =>
            LET k == <<"user", ":", slot[r].id>> IN
            /\ OthersKept(k)
            /\ slot[r].api = "setUser" =>
                 store'[k] = EntryOf(slot[r].val, now, IF slot[r].arg THEN slot[r].ttl ELSE 3600)
            /\ slot[r].api = "getUser" =>
                 /\ store' = store
                 /\ store[k] = NoEntry => slot'[r].ret = JNull
                 /\ \A v \in SessionValues :
                      (Live(store, k, now) /\ store[k].raw = Stringify(v)) => slot'[r].ret = v
            /\ slot[r].api = "invalidateUser" => store'[k] = NoEntry]_vars

C20_Witness ==
  /\ slot[1].api = "getUser" /\ slot[1].id = "2" /\ slot[1].pc = "done"
  /\ slot[1].path = "ok" /\ slot[1].ret \in SessionValues
  /\ store[userKey("2")].exp = 3600 * 1000 /\ store[userKey("1")] # NoEntry

\* ------------------------------------------------- claims, third series
\* C21: every response to a GET that went through cacheResponse carries a
\* cache status (HIT, MISS or ERROR), whatever the lookup gave and whatever
\* status the handler answered with
C21_Claim ==
  \A r \in Flows :
    slot[r].kind = "get" /\ slot[r].sent => slot[r].xcache \in {"HIT", "MISS", "ERROR"}

\* the request of flow r passes cacheResponse without a lookup
Bypassed(r) ==
  slot[r].kind = "get" /\ (slot[r].method # "GET" \/ MountOf(slot[r].url).skipCache)

\* the lookup of the GET of flow r raised (its keyGenerator threw)
LookupRaised(r) ==
  /\ slot[r].kind = "get" /\ slot[r].method = "GET"
  /\ ~MountOf(slot[r].url).skipCache /\ keyGeneratorThrows(MountOf(slot[r].url))

\* C22: when the lookup of a GET raises, the request does not fail: the
\* response is marked ERROR, the wrapped handler runs exactly once and answers
\* with its own status and body, and the request makes no cache write
C22_LookupErrorFallsThrough ==
  \A r \in Flows :
    LookupRaised(r) =>
      /\ slot[r].xcache = "ERROR"
      /\ ~slot[r].wrapped
      /\ slot[r].pc \in {"handler", "respond", "done"}
      /\ slot[r].op = "" /\ OwnCommands(r, {"GET", "SETEX"}) = {}
      /\ slot[r].calls = (IF slot[r].pc = "handler" THEN 0 ELSE 1)
      /\ slot[r].pc = "done" =>
           /\ slot[r].sent /\ slot[r].out = Stringify(slot[r].body)
           /\ slot[r].status \in ProbeStatuses

\* a GET whose lookup raised has been answered 200 by its handler, and the
\* store, which is connected, holds nothing
C22_Witness ==
  /\ LookupRaised(1) /\ slot[1].pc = "done" /\ slot[1].status = 200
  /\ slot[1].xcache = "ERROR" /\ sock = "ready"
  /\ \A k \in Keys : store[k] = NoEntry

\* C23: a request that is not a GET, or that reaches an instance made with
\* skipCache, goes to the wrapped handler with no cache get and no cache set:
\* it sends no command, sets no cache status, and its steps leave the cache
\* contents and the cache client as they were
C23_BypassLeavesCacheAlone ==
  [][\A r \in Flows :
       (slot'[r] # slot[r] /\ Bypassed(r)')
         => /\ store' = store /\ pipe' = pipe /\ redisClient' = redisClient
            /\ pipe' = <<>>
            /\ slot'[r].op = "" /\ slot'[r].key = <<>> /\ ~slot'[r].wrapped
            /\ slot'[r].xcache = ""
            /\ slot'[r].pc \in {"handler", "respond", "done"}
            /\ slot'[r].pc = "done" => slot'[r].calls = 1 /\ slot'[r].sent]_vars

\* a POST answered 200 by its handler while the cache holds an entry for the
\* same url
C23_Witness ==
  /\ Bypassed(1) /\ slot[1].method = "POST" /\ slot[1].url = ProbeUrl
  /\ slot[1].pc = "done" /\ slot[1].status = 200
  /\ Live(store, customKeyGenerator("GET", ProbeUrl), now)

\* C24: a cache operation sends a command to the store only while the
\* connection is ready; a helper called while isReady() is false returns its
\* fallback at once (get gives null) and sends nothing, so set, del and
\* clearPattern change nothing in the store
C24_Claim ==
  [][/\ Len(pipe') > Len(pipe) => isReady(redisClient, sock)
     /\ \A r \in Flows :
          (/\ slot'[r] # slot[r] /\ slot[r].pc \in {"idle", "done"}
           /\ slot'[r].kind = "call" /\ ~isReady(redisClient, sock))
            => /\ pipe' = pipe
               /\ slot'[r].pc = "done"
               /\ slot'[r].ret = Fallback(slot'[r].op)]_vars

\* the key the documentation gives the blog detail entry
DocDetailKey == <<"blog", ":">> \o DetailUrl

\* C25: the blog list route stores the response to GET /api/blogs under
\* 'blogs:/api/blogs' and the blog detail route stores GET /api/blogs/<id>
\* under 'blog:/api/blogs/<id>'
C25_Claim ==
  \A i \in 1..Len(pipe) :
    LET h == pipe[i] IN
    (h.kind = "SETEX" /\ slot[h.own].kind = "get")
      => /\ slot[h.own].url = ListUrl => h.key = DocListKey
         /\ slot[h.own].url = DetailUrl => h.key = DocDetailKey

\* C26: while the store is unreachable or never answers, every GET and every
\* mutating request still gets its handler's response in the end, no response
\* is a HIT, and the cache status of a GET response is MISS or ERROR
C26_Claim ==
  /\ \A r \in Flows :
       (slot[r].kind \in {"get", "mut"} /\ ~slot[r].sent) ~> slot[r].sent
  /\ [](\A r \in Flows :
          slot[r].kind = "get" /\ slot[r].sent => slot[r].xcache \in {"MISS", "ERROR"})

\* the part of C26 about responses arriving, taken alone
C26_EveryRequestAnswered ==
  \A r \in Flows :
    (slot[r].kind \in {"get", "mut"} /\ ~slot[r].sent) ~> slot[r].sent

\* C27: once the invalidation of a successful mutation has completed, no
\* later GET is served a HIT computed from data read before that mutation,
\* also when a GET that missed before the mutation writes the cache after the
\* invalidation has run
C27_Claim ==
  \A r \in Flows :
    (/\ slot[r].kind = "get" /\ slot[r].url = ListUrl
     /\ slot[r].xcache = "HIT" /\ slot[r].floor >= 0)
      => \E v \in slot[r].floor..MaxDb : slot[r].out = Stringify(ListBody(v))

\* the GET /api/blogs of flow r has missed the cache
Missed(r) ==
  /\ slot[r].kind = "get" /\ slot[r].method = "GET" /\ slot[r].url = ListUrl
  /\ slot[r].pc \notin {"idle", "lookup"} /\ slot[r].xcache # "HIT"

\* the GET of flow r missed, was answered 2xx and its cache write succeeded
MissedAndWrote(r) ==
  /\ Missed(r) /\ slot[r].pc = "done" /\ IsSuccessStatus(slot[r].status)
  /\ slot[r].op = "set" /\ slot[r].path = "ok"

\* C28: two GETs for the same cold key that run at the same time and both
\* miss both invoke the handler and both write the cache; each is answered
\* with the body of its own handler call, and after both writes the cached
\* value is the body sent to one of the two
C28_ConcurrentMissesBothWrite ==
  /\ \A r \in Flows :
       Missed(r) =>
         /\ slot[r].wrapped
         /\ slot[r].calls = (IF slot[r].pc = "handler" THEN 0 ELSE 1)
         /\ slot[r].sent => slot[r].out = Stringify(slot[r].body)
         /\ (slot[r].pc = "done" /\ IsSuccessStatus(slot[r].status)) => slot[r].op = "set"
  /\ (MissedAndWrote(1) /\ MissedAndWrote(2) /\ slot[1].key = slot[2].key)
       => store[slot[1].key].raw \in {slot[1].out, slot[2].out}

\* both GETs missed and wrote, the handlers read different data, and the cache
\* holds the body of the first one
C28_Witness ==
  /\ MissedAndWrote(1) /\ MissedAndWrote(2) /\ slot[1].key = slot[2].key
  /\ slot[1].snap = 0 /\ slot[2].snap = 1
  /\ slot[1].out # slot[2].out
  /\ store[slot[1].key].raw = slot[1].out

\* flows r and q have answered the same health endpoint for the same state of
\* MongoDB
SameProbe(r, q) ==
  /\ slot[r].kind = "health" /\ slot[q].kind = "health"
  /\ slot[r].sent /\ slot[q].sent
  /\ slot[r].url = slot[q].url
  /\ slot[r].mongo = slot[q].mongo /\ slot[r].mongoPing = slot[q].mongoPing

\* C29: the HTTP status and the verdict of /health and /health/ready do not
\* depend on the cache client: two answers given for the same state of
\* MongoDB carry the same status, the same health.status and the same ready
\* flag, whatever the connection and the circuit breaker were at each
C29_HealthIgnoresCache ==
  \A r, q \in Flows :
    SameProbe(r, q) =>
      /\ slot[r].status = slot[q].status
      /\ slot[r].health.status = slot[q].health.status
      /\ slot[r].health.ready = slot[q].health.ready
      /\ slot[r].status \in {200, 503}

\* /health answered once with the store healthy and once, the breaker open,
\* with the store disconnected
C29_Witness ==
  /\ SameProbe(1, 2) /\ slot[1].url = HealthUrl
  /\ slot[1].health.redis = "healthy" /\ slot[2].health.redis = "disconnected"
  /\ redisClient.isCircuitBreakerOpen
  /\ slot[1].status = 200

\* C30: when the reconnection attempts exceed the maximum retry count the
\* connection gives up: from then on the circuit breaker is open, and nothing
\* but a new call of connect() makes the client try again
C30_Claim ==
  [][/\ (sock # "ended" /\ sock' = "ended")
          => retries > maxRetries /\ redisClient'.isCircuitBreakerOpen
     /\ (sock = "ended" /\ sock' # "ended")
          => conn.pc # "awaiting" /\ conn'.pc = "awaiting"]_vars

\* ------------------------------------------------ claims, fourth series
\* C31: getClient() called on a RedisClient that has never connected raises
\* the error 'Redis client not connected'
C31_Claim ==
  [][\A r \in Flows :
       (/\ slot'[r] # slot[r] /\ slot'[r].kind = "access"
        /\ slot'[r].op = "getClient" /\ ~redisClient.client)
         => slot'[r].raised]_vars

\* the breaker is open before the step and closed after it
BreakerCloses == redisClient.isCircuitBreakerOpen /\ ~redisClient'.isCircuitBreakerOpen
\* a command that was in flight is answered with success
CommandSucceeds == \E r \in Flows : HelperFinished(r) /\ slot'[r].path = "ok"
\* the connection emits 'connect'
ConnectEvent == sock \in {"connecting", "reconnecting"} /\ sock' = "connected"

C33_OpenIffThresholdReached ==
  /\ redisClient.isCircuitBreakerOpen
       <=> redisClient.circuitBreakerFailures >= circuitBreakerThreshold
  /\ redisClient.isCircuitBreakerOpen => redisClient.circuitBreakerLastFailure # NullTime
  /\ redisClient.circuitBreakerFailures > 0 => redisClient.circuitBreakerLastFailure # NullTime

\* the breaker is open with more failures than the threshold, the last of
\* them recorded after time has passed, and a helper call has been answered
C33_Witness ==
  /\ redisClient.isCircuitBreakerOpen
  /\ redisClient.circuitBreakerFailures > circuitBreakerThreshold
  /\ redisClient.circuitBreakerLastFailure >= circuitBreakerTimeout
  /\ slot[1].kind = "call" /\ slot[1].pc = "done"

\* the connection schedules reconnect attempt number `retries`
RetryScheduled == sock' = "reconnecting" /\ retries' = retries + 1
\* the connection gives up reconnecting
GivesUp == sock # "ended" /\ sock' = "ended"

\* C34: the delay before reconnect attempt n is 1000 ms for n = 0 and then
\* doubles from one attempt to the next until it reaches the cap of 10000 ms
\* (1000, 2000, 4000, 8000, 10000, 10000); it never decreases; attempts 0 to 5
\* get a delay and the attempt after them gives up
C34_BackoffDelays ==
  [][/\ RetryScheduled =>
          /\ retries \in 0..5
          /\ reconnectStrategyDelay(retries)
               = <<1000, 2000, 4000, 8000, 10000, 10000>>[retries + 1]
          /\ retries > 0 =>
               /\ reconnectStrategyDelay(retries) >= reconnectStrategyDelay(retries - 1)
               /\ \/ reconnectStrategyDelay(retries) = 2 * reconnectStrategyDelay(retries - 1)
                  \/ reconnectStrategyDelay(retries) = 10000
     /\ GivesUp => retries = 6 /\ ~reconnectStrategyRetries(retries)
     /\ (sock \in {"connecting", "connected", "ready", "reconnecting"}
         /\ redisClient'.circuitBreakerFailures > redisClient.circuitBreakerFailures
         /\ slot' = slot /\ retries <= 5) => RetryScheduled]_vars

\* the connection has used every delay and given up
C34_Witness ==
  /\ sock = "ended" /\ conn.pc = "done" /\ ~conn.ret
  /\ redisClient.circuitBreakerFailures > 0

\* C35: at most one store client is created and connected at a time:
\* connect() called while the client is connected, or while another connect()
\* call is still in progress, creates no second client or connection
\* (no client is ever replaced by a second one while it is still open)
C35_Claim == redisClient.replaced = 0

\* the cache write or the invalidation of flow r is due or under way
AfterResponseWork(r) == slot[r].pc \in {"setPending", "setWait", "invPending", "invWait"}

\* C36: on a miss and on a successful mutation the response is handed to the
\* client before the cache write or the invalidation starts, and its status
\* and body are those of the handler whether that work later succeeds or fails
C36_ResponseBeforeCacheWork ==
  /\ [](\A r \in Flows :
         (/\ slot[r].kind \in {"get", "mut"}
          /\ AfterResponseWork(r) \/ OwnCommands(r, {"SETEX", "KEYS", "DEL"}) # {})
           => /\ slot[r].sent
              /\ slot[r].out = Stringify(slot[r].body)
              /\ IsSuccessStatus(slot[r].status))
  /\ [][\A r \in Flows :
          AfterResponseWork(r)
            => /\ slot'[r].sent
               /\ slot'[r].status = slot[r].status
               /\ slot'[r].body = slot[r].body
               /\ slot'[r].out = slot[r].out]_vars

\* a GET answered 200 on a miss whose cache write failed afterwards
C36_Witness ==
  /\ slot[1].kind = "get" /\ slot[1].pc = "done" /\ slot[1].op = "set"
  /\ slot[1].path = "failed" /\ slot[1].sent /\ slot[1].status = 200
  /\ slot[1].out = Stringify(slot[1].body)

\* C37: an invalidation run submits every resolved pattern to clearPattern,
\* also when clearing another pattern fails: a failure cancels nothing, is
\* counted by the client (one recorded failure) and changes nothing in the
\* response, is never retried and never raises; the run ends when every call
\* has returned
C37_EveryPatternSubmitted ==
  /\ [](\A r \in Flows :
         slot[r].kind = "mut" =>
           /\ ~slot[r].raised
           /\ slot[r].pc = "invWait" =>
                /\ slot[r].pend > 0
                /\ slot[r].pend = Cardinality(OwnCommands(r, {"KEYS", "DEL"}))
           /\ slot[r].pc = "done" => OwnCommands(r, {"KEYS", "DEL"}) = {})
  /\ [][\A r \in Flows :
          /\ (slot[r].pc = "invPending" /\ slot'[r].pc = "invWait") =>
               \A i \in 1..Len(AllPatterns) :
                 \E j \in (Len(pipe) + 1)..Len(pipe') :
                   /\ pipe'[j].own = r /\ pipe'[j].kind = "KEYS"
                   /\ pipe'[j].key = AllPatterns[i]
          /\ (slot[r].kind = "mut" /\ slot[r].pc = "invWait") =>
               /\ Cardinality(OwnCommands(r, {"KEYS"})')
                    <= Cardinality(OwnCommands(r, {"KEYS"}))
               /\ (slot'[r].pend < slot[r].pend /\ slot'[r].path = "failed") =>
                    /\ redisClient'.circuitBreakerFailures
                         = redisClient.circuitBreakerFailures + 1
                    /\ slot'[r].status = slot[r].status
                    /\ slot'[r].out = slot[r].out]_vars

\* a pattern has failed to clear and the other patterns of the run are still
\* with the store
C37_Witness ==
  /\ slot[1].kind = "mut" /\ slot[1].pc = "invWait"
  /\ slot[1].fell /\ slot[1].path = "failed"
  /\ OwnCommands(1, {"KEYS"}) # {}

\* C38: one 2xx response of a mutating handler triggers exactly one
\* invalidation run, that is one clearPattern call for each configured
\* pattern, although res.json passes the wrapped json, send and end
C38_Claim ==
  \A r \in Flows :
    slot[r].kind = "mut" =>
      /\ slot[r].pc = "invPending" => slot[r].pend = Len(AllPatterns)
      /\ slot[r].pc = "invWait" =>
           \A i \in 1..Len(AllPatterns) :
             Cardinality({j \in OwnCommands(r, {"KEYS", "DEL"}) :
                            pipe[j].key = AllPatterns[i]}) <= 1

\* C39: disconnect() never raises; once it has returned, and until the
\* application connects again, the client is not connected, isReady() is
\* false, and a get, set, del or clearPattern returns its fallback at once
\* without a command being sent to the store
ShutDown ==
  /\ slot[2].kind = "shutdown"
  /\ slot[2].pc = "done"
  /\ sock \in {"none", "ended", "connecting", "reconnecting"}
C39_DisconnectSilencesHelpers ==
  /\ [](\A r \in Flows : slot[r].kind = "shutdown" => ~slot[r].raised)
  /\ [](ShutDown => ~redisClient.isConnected /\ ~isReady(redisClient, sock))
  /\ [][(/\ ShutDown
         /\ slot[1].pc \in {"idle", "done"}
         /\ slot'[1] # slot[1])
        => /\ pipe' = pipe
           /\ slot'[1].pc = "done"
           /\ ~slot'[1].raised
           /\ slot'[1].ret = Fallback(slot'[1].op)
           /\ slot'[1].path \in {"disconnected", "breaker"}]_vars
\* QUIT was answered, and a helper called afterwards on the closed client has
\* returned its fallback
C39_Witness ==
  /\ ShutDown
  /\ sock = "ended"
  /\ slot[2].path = "ok"
  /\ slot[1].kind = "call"
  /\ slot[1].pc = "done"
  /\ slot[1].closed
  /\ slot[1].path = "disconnected"

====
